---------------------------- MODULE Spec2Model ----------------------------
(***************************************************************************)
(* Model of the chunked-upload session store and the OCR routes of        *)
(* src/api.py, of the batch dispatcher of src/batch_cli.py, of the         *)
(* command line of src/cli.py and of the service of src/main.py.           *)
(*                                                                         *)
(* Strings the program inspects character by character (file names) are   *)
(* sequences of one-character strings; file contents are sequences of     *)
(* bytes.  Each HTTP handler is one action: the whole handler, with its   *)
(* early returns, its filesystem calls and its exception handlers.        *)
(***************************************************************************)
EXTENDS Integers, Sequences, FiniteSets, TLC

VARIABLES
    UPLOAD_SESSIONS,  \* api.py:409, upload_id -> session record
    files,            \* the files of UPLOAD_FOLDER: path -> content
    next_uuid,        \* number of uuid4() values drawn so far
    arrived,          \* history: upload_id -> accepted (chunk_index, data) in arrival order
    response,         \* the response of the last request handled
    batch,            \* the state of one run of batch_cli.main
    cli,              \* the state of one run of cli.main
    http,             \* the last request to /ocr, /ocr/gemini or /batch/ocr and its response
    calls             \* the /upload/chunk requests in progress, one thread each

vars == <<UPLOAD_SESSIONS, files, next_uuid, arrived, response, batch, cli, http, calls>>

(***************************************************************************)
(* Bounds of the model.                                                    *)
(***************************************************************************)
MaxSessions == 2      \* upload sessions ever created
MaxAppends == 2       \* chunks held by the live sessions together
MaxFiles == 3         \* input files of a batch run
MaxWorkers == 2       \* --workers of a batch run
MaxTokens == 4        \* tokens the OCR engine reports for one image
MaxUploads == 2       \* files of one request to /batch/ocr
MaxCalls == 2         \* requests for upload sessions handled at the same time

(***************************************************************************)
(* Configuration, api.py:33-34.                                            *)
(***************************************************************************)
MAX_FILE_SIZE == 50 * 1024 * 1024

ALLOWED_EXTENSIONS ==
    { <<"j","p","g">>, <<"j","p","e","g">>, <<"p","n","g">>, <<"b","m","p">>,
      <<"t","i","f","f">>, <<"t","i","f">>, <<"g","i","f">>,
      <<"w","e","b","p">>, <<"p","d","f">> }

(***************************************************************************)
(* Characters.                                                             *)
(***************************************************************************)
LowerLetters == {"a","b","d","e","f","g","i","j","m","n","p","t","w","x"}

UpperLetters == {"P","N","G"}

\* [A-Za-z0-9_.-], the characters werkzeug's secure_filename keeps
SafeChars == LowerLetters \cup UpperLetters \cup {"_", ".", "-"}

\* characters that survive encode("ascii", "ignore")
AsciiChars == SafeChars \cup {"/", " ", "*"}

Whitespace == {" "}

\* str.lower() on one character
LowerChar(c) ==
    CASE c = "P" -> "p"
      [] c = "N" -> "n"
      [] c = "G" -> "g"
      [] OTHER -> c

lower(s) == [i \in DOMAIN s |-> LowerChar(s[i])]

(***************************************************************************)
(* werkzeug.utils.secure_filename, as called at api.py:427 (POSIX).        *)
(***************************************************************************)
IsAscii(c) == c \in AsciiChars

IsSafe(c) == c \in SafeChars

\* os.sep replaced by a space
ReplaceSep(s) == [i \in DOMAIN s |-> IF s[i] = "/" THEN " " ELSE s[i]]

\* "_".join(s.split()): runs of whitespace between words become one "_",
\* leading and trailing whitespace disappears
RECURSIVE JoinWords(_, _, _)
JoinWords(s, i, seenWord) ==
    IF i > Len(s) THEN <<>>
    ELSE IF s[i] \in Whitespace THEN JoinWords(s, i + 1, seenWord)
    ELSE (IF seenWord /\ i > 1 /\ s[i - 1] \in Whitespace THEN <<"_">> ELSE <<>>)
         \o <<s[i]>> \o JoinWords(s, i + 1, TRUE)

\* str.strip("._")
RECURSIVE LStrip(_)
LStrip(s) ==
    IF s # <<>> /\ Head(s) \in {".", "_"} THEN LStrip(Tail(s)) ELSE s

RECURSIVE RStrip(_)
RStrip(s) ==
    IF s # <<>> /\ s[Len(s)] \in {".", "_"}
    THEN RStrip(SubSeq(s, 1, Len(s) - 1)) ELSE s

secure_filename(filename) ==
    LET ascii    == SelectSeq(filename, IsAscii)
        nosep    == ReplaceSep(ascii)
        joined   == JoinWords(nosep, 1, FALSE)
        stripped == SelectSeq(joined, IsSafe)
    IN  RStrip(LStrip(stripped))

(***************************************************************************)
(* allowed_file, api.py:44-46.                                             *)
(***************************************************************************)
HasDot(s) == \E i \in DOMAIN s : s[i] = "."

LastDot(s) == CHOOSE i \in DOMAIN s : s[i] = "." /\ \A j \in DOMAIN s : s[j] = "." => j <= i

\* filename.rsplit('.', 1)[1]
Extension(s) == SubSeq(s, LastDot(s) + 1, Len(s))

\* a check that only looks for a dot
allowed_file_DotOnly(filename) == HasDot(filename)

allowed_file(filename) ==
    HasDot(filename) /\ lower(Extension(filename)) \in ALLOWED_EXTENSIONS

(***************************************************************************)
(* The filesystem under UPLOAD_FOLDER.  A path is the file's name in that  *)
(* folder; a missing file is a path outside DOMAIN files.                  *)
(***************************************************************************)
\* api.py:448, os.path.join(UPLOAD_FOLDER, f'upload_{upload_id}')
TempPath(upload_id) == <<"upload_", ToString(upload_id)>>

\* api.py:569, os.path.join(UPLOAD_FOLDER, session['filename'])
FinalPath(filename) == filename

\* os.path.exists
Exists(fs, path) == path \in DOMAIN fs

\* what a reader of the path gets; nothing when there is no such file
Content(fs, path) == IF Exists(fs, path) THEN fs[path] ELSE <<>>

\* the file opened with 'wb': every write starts the file again
AppendToFile_Truncate(fs, path, data) ==
    [p \in DOMAIN fs \cup {path} |-> IF p = path THEN data ELSE fs[p]]

\* open(path, 'ab') followed by chunk.save(f): creates the file when it is
\* missing and writes the data at the end
AppendToFile(fs, path, data) ==
    [p \in DOMAIN fs \cup {path} |->
        IF p = path THEN Content(fs, path) \o data ELSE fs[p]]

\* the file left where it is
RemoveFile_Keep(fs, path) == fs

\* os.remove
RemoveFile(fs, path) == [p \in DOMAIN fs \ {path} |-> fs[p]]

\* os.rename of an existing source; an existing destination is replaced
RenameFile(fs, src, dst) ==
    [p \in (DOMAIN fs \ {src}) \cup {dst} |-> IF p = dst THEN fs[src] ELSE fs[p]]

\* the del statement left out
DelKey_Keep(f, k) == f

\* del UPLOAD_SESSIONS[upload_id]
DelKey(f, k) == [x \in DOMAIN f \ {k} |-> f[x]]

\* UPLOAD_SESSIONS[upload_id] = ...
SetKey(f, k, v) == [x \in DOMAIN f \cup {k} |-> IF x = k THEN v ELSE f[x]]

(***************************************************************************)
(* Responses.  error is the message of the JSON body ("" on success); the  *)
(* counts are those the body carries, 0 when it carries none.              *)
(***************************************************************************)
Reply(op, upload_id, status, error) ==
    [op |-> op, upload_id |-> upload_id, status |-> status, error |-> error,
     received |-> 0, total |-> 0, is_complete |-> FALSE]

ReplyCounts(op, upload_id, status, error, received, total, is_complete) ==
    [op |-> op, upload_id |-> upload_id, status |-> status, error |-> error,
     received |-> received, total |-> total, is_complete |-> is_complete]

(***************************************************************************)
(* Request inputs.                                                         *)
(***************************************************************************)
\* file names a client may send
FilenameInputs ==
    { <<"a",".","p","n","g">>,                  \* a.png
      <<"a",".","P","N","G">>,                  \* a.PNG
      <<".",".","/","a",".","p","n","g">>,      \* ../a.png
      <<" ","a",".","p","n","g",".">>,          \* " a.png."
      <<>>,                                     \* no filename
      <<"/">>,                                  \* empty once sanitized
      <<"a",".","t","x","t">>,                  \* a.txt
      <<".","p","n","g">>,                      \* .png
      <<"a","*",".","p","d","f","x">> }         \* a*.pdfx

Req(filename, filesize, chunk_count) ==
    [filename |-> filename, filesize |-> filesize, chunk_count |-> chunk_count]

\* the JSON bodies of POST /upload/init
InitRequests ==
    { Req(f, 1, 2) : f \in FilenameInputs \ {<<"a",".","P","N","G">>} }
    \cup { Req(<<"a",".","P","N","G">>, 1000, 0),
           Req(<<".",".","/","a",".","p","n","g">>, MAX_FILE_SIZE, 1),
           Req(<<"a",".","p","n","g">>, MAX_FILE_SIZE + 1, 2),
           Req(<<"a",".","t","x","t">>, MAX_FILE_SIZE + 1, 2) }

\* request.form.get('chunk_index', -1) before int(): absent, not a number,
\* or the text of an integer
ChunkIndexForms ==
    { [kind |-> "absent", value |-> 0], [kind |-> "text", value |-> 0] }
    \cup { [kind |-> "int", value |-> v] : v \in {-1, 0, 1} }

\* the client's file, cut into chunks: chunk i carries ClientChunks[i + 1]
ClientChunks == << <<"A">>, <<"B">> >>

\* the multipart bodies of POST /upload/chunk: without a 'chunk' part, with
\* a chunk and a chunk_index field that is no index, with chunk i and index i
ChunkRequests ==
    { [has_chunk |-> FALSE, form |-> [kind |-> "int", value |-> 0], data |-> <<>>] }
    \cup { [has_chunk |-> TRUE, form |-> f, data |-> ClientChunks[1]] :
             f \in { g \in ChunkIndexForms : g.kind # "int" \/ g.value < 0 } }
    \cup { [has_chunk |-> TRUE, form |-> f, data |-> ClientChunks[f.value + 1]] :
             f \in { g \in ChunkIndexForms : g.kind = "int" /\ g.value >= 0 } }

\* the ids a client may present: those issued, those no longer live and
\* those not issued yet
UploadIds == 1 .. MaxSessions

(***************************************************************************)
(* OCRProcessor, cli.py:29-111: the methods the class defines.             *)
(***************************************************************************)
OCRProcessorMethods ==
    {"__init__", "extract_text", "_preprocess_image", "get_available_languages"}

\* ocr_processor.process_image(...), api.py:574: attribute lookup on the
\* instance raises AttributeError for a method the class does not define
CallProcessImage ==
    IF "process_image" \in OCRProcessorMethods
    THEN {"returned"} ELSE {"AttributeError"}

(***************************************************************************)
(* OCRProcessor.extract_text, cli.py:36-85.  One call of the OCR engine    *)
(* (Image.open or _preprocess_image, image_to_string, image_to_data)       *)
(* either raises an exception, whose str() may be empty, or reads a text   *)
(* and one confidence per token.                                           *)
(***************************************************************************)
EngineRaised(message) ==
    [raised |-> TRUE, message |-> message, text |-> <<>>, conf |-> <<>>]

EngineRead(text, conf) ==
    [raised |-> FALSE, message |-> "", text |-> text, conf |-> conf]

\* str.strip() of the engine's text, cli.py:72
RECURSIVE lstrip(_)
lstrip(s) == IF s # <<>> /\ Head(s) \in Whitespace THEN lstrip(Tail(s)) ELSE s

RECURSIVE rstrip(_)
rstrip(s) ==
    IF s # <<>> /\ s[Len(s)] \in Whitespace
    THEN rstrip(SubSeq(s, 1, Len(s) - 1)) ELSE s

strip(s) == rstrip(lstrip(s))

\* sum(confidences)
RECURSIVE sum(_)
sum(s) == IF s = <<>> THEN 0 ELSE Head(s) + sum(Tail(s))

\* a filter that lets the zeros through
Confident_ZeroIncluded(conf) == conf >= 0

\* int(conf) > 0, cli.py:68
Confident(conf) == conf > 0

\* round(num / den, 2), written in hundredths: the nearest hundredth, the
\* even one when num / den lies halfway between two
round2(num, den) ==
    LET q == (100 * num) \div den
        r == (100 * num) % den
    IN  IF 2 * r > den \/ (2 * r = den /\ q % 2 = 1) THEN q + 1 ELSE q

\* the 'confidence' of the record, in hundredths, cli.py:67-69, 73
avg_confidence(conf) ==
    LET confidences == SelectSeq(conf, Confident)
    IN  IF confidences # <<>> THEN round2(sum(confidences), Len(confidences)) ELSE 0

\* the dictionary extract_text returns; has_error is the presence of the
\* key 'error'
extract_text(run) ==
    IF run.raised
    THEN [has_error |-> TRUE, error |-> run.message, text |-> <<>>, confidence |-> 0]
    ELSE [has_error |-> FALSE, error |-> "", text |-> strip(run.text),
          confidence |-> avg_confidence(run.conf)]

(***************************************************************************)
(* GeminiProcessor, app/gemini.py:11-82.  process_text catches every       *)
(* exception and returns success False; the constructor may raise.         *)
(***************************************************************************)
ProcessTextOutcomes == {"success", "failed"}

\* result['gemini'] = ...; gemini is "absent" while the key is not set
WithGemini(result, gemini) ==
    [has_error |-> result.has_error, error |-> result.error, text |-> result.text,
     confidence |-> result.confidence, gemini |-> gemini]

(***************************************************************************)
(* Upload session store.                                                   *)
(***************************************************************************)
RECURSIVE SumReceived(_, _)
SumReceived(sessions, ids) ==
    IF ids = {} THEN 0
    ELSE LET i == CHOOSE x \in ids : TRUE
         IN  Len(sessions[i].received_chunks) + SumReceived(sessions, ids \ {i})

TotalReceived == SumReceived(UPLOAD_SESSIONS, DOMAIN UPLOAD_SESSIONS)

NoBatch == [pc |-> "idle"]

NoCli == [pc |-> "idle"]

NoHttp ==
    [route |-> "none", names |-> <<>>, status |-> 0, success |-> TRUE, error |-> "",
     written |-> {}, data |-> <<>>, failures |-> <<>>]

NoCalls == << >>

InitUpload ==
    /\ batch = NoBatch
    /\ cli = NoCli
    /\ http = NoHttp
    /\ calls = NoCalls
    /\ UPLOAD_SESSIONS = << >>
    /\ files = << >>
    /\ next_uuid = 0
    /\ arrived = << >>
    /\ response = Reply("none", 0, 0, "")

\* POST /upload/init, api.py:412-469
init_chunked_upload(filename_in, filesize, chunk_count) ==
    LET filename == secure_filename(filename_in) IN
    IF filename = <<>> \/ ~allowed_file(filename)
    THEN /\ response' = Reply("init", 0, 400, "Invalid filename or file type")
         /\ UNCHANGED <<UPLOAD_SESSIONS, files, next_uuid, arrived>>
    ELSE IF filesize > MAX_FILE_SIZE
    THEN /\ response' = Reply("init", 0, 400, "File too large")
         /\ UNCHANGED <<UPLOAD_SESSIONS, files, next_uuid, arrived>>
    ELSE /\ next_uuid < MaxSessions
         /\ LET upload_id == next_uuid + 1 IN
            /\ next_uuid' = next_uuid + 1
            /\ UPLOAD_SESSIONS' = SetKey(UPLOAD_SESSIONS, upload_id,
                    [filename |-> filename, filesize |-> filesize,
                     chunk_count |-> chunk_count, received_chunks |-> <<>>,
                     temp_path |-> TempPath(upload_id)])
            /\ arrived' = SetKey(arrived, upload_id, <<>>)
            /\ response' = Reply("init", upload_id, 200, "")
         /\ UNCHANGED files

\* the membership test left out
KnownSession_Always(upload_id) == TRUE

\* upload_id in UPLOAD_SESSIONS, api.py:482, 545, 619
KnownSession(upload_id) == upload_id \in DOMAIN UPLOAD_SESSIONS

\* the cleanup left out
RemoveIfExists_Skip(fs, path) == fs

\* if os.path.exists(path): os.remove(path), api.py:603-604, 629-630
RemoveIfExists(fs, path) == IF Exists(fs, path) THEN RemoveFile(fs, path) ELSE fs

\* the reply every handler gives for an id it does not find
InvalidSession(op, upload_id) == Reply(op, upload_id, 400, "Invalid upload session")

\* POST /upload/chunk/<upload_id>, api.py:472-529
upload_chunk(upload_id, has_chunk, form, data) ==
    IF ~KnownSession(upload_id)
    THEN /\ response' = InvalidSession("chunk", upload_id)
         /\ UNCHANGED <<UPLOAD_SESSIONS, files, next_uuid, arrived>>
    ELSE IF upload_id \notin DOMAIN UPLOAD_SESSIONS
    THEN \* UPLOAD_SESSIONS[upload_id] raises, the handler's except answers
         /\ response' = Reply("chunk", upload_id, 500, "KeyError")
         /\ UNCHANGED <<UPLOAD_SESSIONS, files, next_uuid, arrived>>
    ELSE IF ~has_chunk
    THEN /\ response' = Reply("chunk", upload_id, 400, "No chunk data provided")
         /\ UNCHANGED <<UPLOAD_SESSIONS, files, next_uuid, arrived>>
    ELSE IF form.kind = "text"
    THEN \* int() raises ValueError
         /\ response' = Reply("chunk", upload_id, 500, "ValueError")
         /\ UNCHANGED <<UPLOAD_SESSIONS, files, next_uuid, arrived>>
    ELSE LET session == UPLOAD_SESSIONS[upload_id]
             chunk_index == IF form.kind = "absent" THEN -1 ELSE form.value
         IN
         IF chunk_index < 0
         THEN /\ response' = Reply("chunk", upload_id, 400, "Invalid chunk index")
              /\ UNCHANGED <<UPLOAD_SESSIONS, files, next_uuid, arrived>>
         ELSE /\ TotalReceived < MaxAppends
              /\ files' = AppendToFile(files, session.temp_path, data)
              /\ LET received == Append(session.received_chunks, chunk_index) IN
                 /\ UPLOAD_SESSIONS' =
                        [UPLOAD_SESSIONS EXCEPT ![upload_id].received_chunks = received]
                 /\ response' = ReplyCounts("chunk", upload_id, 200, "",
                        Len(received), session.chunk_count,
                        Len(received) = session.chunk_count)
              /\ arrived' = [arrived EXCEPT ![upload_id] =
                        Append(@, [chunk_index |-> chunk_index, data |-> data])]
              /\ UNCHANGED next_uuid

\* POST /upload/complete/<upload_id>, api.py:532-612
complete_chunked_upload(upload_id, outcome) ==
    IF ~KnownSession(upload_id)
    THEN /\ response' = InvalidSession("complete", upload_id)
         /\ UNCHANGED <<UPLOAD_SESSIONS, files, next_uuid, arrived>>
    ELSE IF upload_id \notin DOMAIN UPLOAD_SESSIONS
    THEN /\ response' = Reply("complete", upload_id, 500, "KeyError")
         /\ UNCHANGED <<UPLOAD_SESSIONS, files, next_uuid, arrived>>
    ELSE LET session == UPLOAD_SESSIONS[upload_id]
             temp_path == session.temp_path
             final_path == FinalPath(session.filename)
         IN
         IF Len(session.received_chunks) # session.chunk_count
         THEN /\ response' = ReplyCounts("complete", upload_id, 400, "Incomplete upload",
                    Len(session.received_chunks), session.chunk_count, FALSE)
              /\ UNCHANGED <<UPLOAD_SESSIONS, files, next_uuid, arrived>>
         ELSE IF ~Exists(files, temp_path)
         THEN \* os.rename raises outside the inner try: only the outer handler runs
              /\ response' = Reply("complete", upload_id, 500, "FileNotFoundError")
              /\ UNCHANGED <<UPLOAD_SESSIONS, files, next_uuid, arrived>>
         ELSE LET renamed == RenameFile(files, temp_path, final_path) IN
              /\ files' = IF outcome = "returned"
                          THEN RemoveFile(renamed, final_path)         \* api.py:593
                          ELSE RemoveIfExists(renamed, final_path)     \* api.py:603-604
              /\ UPLOAD_SESSIONS' = DelKey(UPLOAD_SESSIONS, upload_id)
              /\ arrived' = DelKey(arrived, upload_id)
              /\ response' = IF outcome = "returned"
                             THEN Reply("complete", upload_id, 200, "")
                             ELSE Reply("complete", upload_id, 500, outcome)
              /\ UNCHANGED next_uuid

\* DELETE /upload/cancel/<upload_id>, api.py:615-644
cancel_chunked_upload(upload_id) ==
    IF ~KnownSession(upload_id)
    THEN /\ response' = InvalidSession("cancel", upload_id)
         /\ UNCHANGED <<UPLOAD_SESSIONS, files, next_uuid, arrived>>
    ELSE IF upload_id \notin DOMAIN UPLOAD_SESSIONS
    THEN /\ response' = Reply("cancel", upload_id, 500, "KeyError")
         /\ UNCHANGED <<UPLOAD_SESSIONS, files, next_uuid, arrived>>
    ELSE LET temp_path == UPLOAD_SESSIONS[upload_id].temp_path IN
         /\ files' = RemoveIfExists(files, temp_path)
         /\ UPLOAD_SESSIONS' = DelKey(UPLOAD_SESSIONS, upload_id)
         /\ arrived' = DelKey(arrived, upload_id)
         /\ response' = Reply("cancel", upload_id, 200, "")
         /\ UNCHANGED next_uuid

InitRequest ==
    /\ \E r \in InitRequests :
        init_chunked_upload(r.filename, r.filesize, r.chunk_count)
    /\ UNCHANGED <<batch, cli, http, calls>>

ChunkRequest ==
    /\ \E id \in UploadIds, r \in ChunkRequests :
        upload_chunk(id, r.has_chunk, r.form, r.data)
    /\ UNCHANGED <<batch, cli, http, calls>>

CompleteRequest ==
    /\ \E id \in UploadIds, outcome \in CallProcessImage :
        complete_chunked_upload(id, outcome)
    /\ UNCHANGED <<batch, cli, http, calls>>

CancelRequest ==
    /\ \E id \in UploadIds : cancel_chunked_upload(id)
    /\ UNCHANGED <<batch, cli, http, calls>>

NextUpload ==
    \/ InitRequest
    \/ ChunkRequest
    \/ CompleteRequest
    \/ CancelRequest

SpecUpload == InitUpload /\ [][NextUpload]_vars

(***************************************************************************)
(* The batch dispatcher, batch_cli.py:234-321.  batch is the state of one  *)
(* run of main once files_to_process is collected:                         *)
(*   n, workers, continue_on_error   the run's inputs                      *)
(*   pc            where the main thread is: "submit" (the comprehension   *)
(*                 of lines 240-243), "as_completed" (the call of line     *)
(*                 246), "loop" (the iterations, 246-282),                 *)
(*                 "exiting" (sys.exit raised inside the with block: the   *)
(*                 executor's __exit__ is shutdown(wait=True)), "summary", *)
(*                 "done" (the process has ended with exit_code)           *)
(*   status[i]     of file i: "new", "queued" (submitted, in the work      *)
(*                 queue), "running" (in a worker), "finished"             *)
(*   gemini        the run has a Gemini processor (--gemini, 195-210)      *)
(*   starts[i]     how many times a worker has begun file i                *)
(*   outcome[i]    what the future of file i holds: "raise" an exception,  *)
(*                 "error" a record with the key 'error', "ok" another     *)
(*   result[i]     the record process_file returned for file i             *)
(*   snapshot      the futures that were done when as_completed began      *)
(*   finished_futures   the futures that completed since, in that order,   *)
(*                 and wait to be yielded (the waiter's list)              *)
(*   yielded       the futures as_completed has handed to the loop         *)
(*   results, failed_files   the lists of lines 235-236                    *)
(***************************************************************************)
\* process_file returned a record without 'error', returned one with
\* 'error' (extract_text caught the exception), or raised
ProcessOutcomes == {"ok", "error", "raise"}

\* what the OCR engine does for a file of a batch
BatchRuns ==
    { EngineRaised("E"), EngineRaised(""), EngineRead(<<"T", " ">>, <<80, 60>>) }

\* the Gemini step taken for every record
GeminiWanted_Always(result) == TRUE

\* not result.get('error'), batch_cli.py:44: there is no key 'error', or its
\* value is the empty string
GeminiWanted(result) == ~result.has_error \/ result.error = ""

\* process_file, batch_cli.py:28-57; llm is what gemini.process_text does
\* when it is called ("raise": the except of lines 54-55)
process_file(run, gemini, llm) ==
    LET result == extract_text(run) IN
    IF gemini /\ GeminiWanted(result)
    THEN WithGemini(result, IF llm = "success" THEN "success" ELSE "failed")
    ELSE WithGemini(result, "absent")

\* the record of a file that has none yet
NoResult == WithGemini(extract_text(EngineRead(<<>>, <<>>)), "absent")

\* 'error' in result, batch_cli.py:252
Classify(result) == IF result.has_error THEN "error" ELSE "ok"

BatchFiles(b) == 1 .. b.n

Running(b) == { i \in BatchFiles(b) : b.status[i] = "running" }

Queued(b) == { i \in BatchFiles(b) : b.status[i] = "queued" }

InitBatch ==
    /\ UPLOAD_SESSIONS = << >>
    /\ files = << >>
    /\ next_uuid = 0
    /\ arrived = << >>
    /\ response = Reply("none", 0, 0, "")
    /\ cli = NoCli
    /\ http = NoHttp
    /\ calls = NoCalls
    /\ \E n \in 1 .. MaxFiles, w \in 1 .. MaxWorkers, c \in BOOLEAN, g \in BOOLEAN :
          batch = [pc |-> "submit", n |-> n, workers |-> w, continue_on_error |-> c,
                   gemini |-> g,
                   status |-> [i \in 1 .. n |-> "new"],
                   starts |-> [i \in 1 .. n |-> 0],
                   outcome |-> [i \in 1 .. n |-> "none"],
                   result |-> [i \in 1 .. n |-> NoResult],
                   snapshot |-> {}, finished_futures |-> <<>>,
                   yielded |-> {}, results |-> <<>>, failed_files |-> <<>>,
                   exit_code |-> -1]

\* executor.submit for the next file of files_to_process, batch_cli.py:240-243
Submit ==
    /\ batch.pc = "submit"
    /\ \E i \in BatchFiles(batch) :
          /\ batch.status[i] = "new"
          /\ \A j \in BatchFiles(batch) : j < i => batch.status[j] # "new"
          /\ batch' = [batch EXCEPT !.status[i] = "queued",
                                    !.pc = IF i = batch.n THEN "as_completed" ELSE "submit"]
    /\ UNCHANGED <<UPLOAD_SESSIONS, files, next_uuid, arrived, response, cli, http, calls>>

\* a pool that starts a thread for every work item
PoolHasIdleThread_Always(b) == TRUE

\* ThreadPoolExecutor(max_workers=args.workers), batch_cli.py:238: a work
\* item is begun only by one of at most max_workers threads, each busy with
\* one item at a time
PoolHasIdleThread(b) == Cardinality(Running(b)) < b.workers

\* a worker thread takes the oldest work item of the queue; the executor
\* has at most max_workers threads, and a thread that has begun an item
\* finishes it
WorkerStart ==
    /\ batch.pc \in {"submit", "as_completed", "loop", "exiting"}
    /\ PoolHasIdleThread(batch)
    /\ \E i \in Queued(batch) :
          /\ \A j \in Queued(batch) : i <= j
          /\ batch' = [batch EXCEPT !.status[i] = "running", !.starts[i] = @ + 1]
    /\ UNCHANGED <<UPLOAD_SESSIONS, files, next_uuid, arrived, response, cli, http, calls>>

\* a future that completes while as_completed iterates is added to the
\* waiter's list
Notified(b, i) ==
    IF b.pc = "loop" THEN [b EXCEPT !.finished_futures = Append(@, i)] ELSE b

\* process_file ends in a worker, batch_cli.py:28-57
WorkerFinish ==
    /\ batch.pc \in {"submit", "as_completed", "loop", "exiting"}
    /\ \E i \in Running(batch) :
          \/ \E run \in BatchRuns, llm \in ProcessTextOutcomes :
                LET result == process_file(run, batch.gemini, llm) IN
                batch' = [Notified(batch, i) EXCEPT !.status[i] = "finished",
                                                    !.outcome[i] = Classify(result),
                                                    !.result[i] = result]
          \/ batch' = [Notified(batch, i) EXCEPT !.status[i] = "finished",
                                                 !.outcome[i] = "raise"]
    /\ UNCHANGED <<UPLOAD_SESSIONS, files, next_uuid, arrived, response, cli, http, calls>>

\* a failure that is recorded without ending the run
Recorded_NeverHalts(b, i) ==
    IF b.outcome[i] = "ok"
    THEN [b EXCEPT !.yielded = @ \cup {i}, !.results = Append(@, i)]
    ELSE [b EXCEPT !.yielded = @ \cup {i}, !.failed_files = Append(@, i)]

\* a raised or returned error is kept only as a count
Recorded_ErrorsDropped(b, i) ==
    IF b.outcome[i] = "ok"
    THEN [b EXCEPT !.yielded = @ \cup {i}, !.results = Append(@, i)]
    ELSE [b EXCEPT !.yielded = @ \cup {i},
                   !.pc = IF b.continue_on_error THEN "loop" ELSE "exiting"]

\* one turn of the as_completed loop for the future of file i,
\* batch_cli.py:246-282
Recorded(b, i) ==
    IF b.outcome[i] = "ok"
    THEN [b EXCEPT !.yielded = @ \cup {i}, !.results = Append(@, i)]
    ELSE [b EXCEPT !.yielded = @ \cup {i}, !.failed_files = Append(@, i),
                   !.pc = IF b.continue_on_error THEN "loop" ELSE "exiting"]

\* as_completed(future_to_file) begins, batch_cli.py:246: it notes the
\* futures that are done already
AsCompleted ==
    /\ batch.pc = "as_completed"
    /\ batch' = [batch EXCEPT !.pc = "loop",
                              !.snapshot = { i \in BatchFiles(batch) :
                                               batch.status[i] = "finished" }]
    /\ UNCHANGED <<UPLOAD_SESSIONS, files, next_uuid, arrived, response, cli, http, calls>>

\* as_completed yields a finished future it has not yielded yet: first
\* those of the snapshot, in the order of a set, then the others in the
\* order they completed
CanYield(b, i) ==
    \/ i \in b.snapshot \ b.yielded
    \/ /\ b.snapshot \subseteq b.yielded
       /\ b.finished_futures # <<>>
       /\ Head(b.finished_futures) = i

\* the future handed over leaves the waiter's list
Yielded(b, i) ==
    IF i \in b.snapshot THEN b ELSE [b EXCEPT !.finished_futures = Tail(@)]

LoopTurn ==
    /\ batch.pc = "loop"
    /\ \E i \in BatchFiles(batch) :
          /\ CanYield(batch, i)
          /\ batch' = Recorded(Yielded(batch, i), i)
    /\ UNCHANGED <<UPLOAD_SESSIONS, files, next_uuid, arrived, response, cli, http, calls>>

\* as_completed is exhausted: the with block ends and the summary follows,
\* batch_cli.py:284-297
LoopEnd ==
    /\ batch.pc = "loop"
    /\ batch.yielded = BatchFiles(batch)
    /\ batch' = [batch EXCEPT !.pc = "summary"]
    /\ UNCHANGED <<UPLOAD_SESSIONS, files, next_uuid, arrived, response, cli, http, calls>>

\* the summary is written and main returns, batch_cli.py:302-321
Summary ==
    /\ batch.pc = "summary"
    /\ batch' = [batch EXCEPT !.pc = "done", !.exit_code = 0]
    /\ UNCHANGED <<UPLOAD_SESSIONS, files, next_uuid, arrived, response, cli, http, calls>>

\* sys.exit(1) of lines 256 and 280: SystemExit leaves the with block, whose
\* __exit__ waits until the workers have emptied the queue; then the process
\* ends with code 1
ExitAfterShutdown ==
    /\ batch.pc = "exiting"
    /\ \A i \in BatchFiles(batch) : batch.status[i] = "finished"
    /\ batch' = [batch EXCEPT !.pc = "done", !.exit_code = 1]
    /\ UNCHANGED <<UPLOAD_SESSIONS, files, next_uuid, arrived, response, cli, http, calls>>

NextBatch ==
    \/ Submit
    \/ AsCompleted
    \/ WorkerStart
    \/ WorkerFinish
    \/ LoopTurn
    \/ LoopEnd
    \/ Summary
    \/ ExitAfterShutdown

SpecBatch == InitBatch /\ [][NextBatch]_vars

(***************************************************************************)
(* The single-file command line, cli.py:269-376.  cli is the state of one  *)
(* run of main once the arguments are parsed:                              *)
(*   gemini, verbose, format   the arguments --gemini, --verbose, --format *)
(*   pc            "start", "extracted" (line 303), "processed" (line      *)
(*                 336), "done" (the process has ended with exit_code)     *)
(*   conf          the token confidences the engine reported               *)
(*   result        the record extract_text returned                        *)
(*   gemini_result "none", or the 'success' of what process_text returned  *)
(*   stdout        what the run has printed or saved                       *)
(*   stderr        the error the run has reported, "" when none            *)
(***************************************************************************)
\* the integers of data['conf']: -1 for a box without a word, 0 to 100
ConfValues == {-1, 0, 1, 60, 80}

ConfLists == UNION { [1 .. n -> ConfValues] : n \in 0 .. MaxTokens }

\* what the OCR engine does for the input file: it raises, or it reads a
\* text (blank when no token is recognised) and the confidences
CliRuns ==
    { EngineRaised("E"), EngineRaised("") }
    \cup { EngineRead(IF \E i \in DOMAIN c : c[i] > 0 THEN <<"T", " ">> ELSE <<" ">>, c) :
             c \in ConfLists }

InitCli ==
    /\ UPLOAD_SESSIONS = << >>
    /\ files = << >>
    /\ next_uuid = 0
    /\ arrived = << >>
    /\ response = Reply("none", 0, 0, "")
    /\ batch = NoBatch
    /\ http = NoHttp
    /\ calls = NoCalls
    /\ \E g \in BOOLEAN, v \in BOOLEAN, f \in {"text", "json"} :
          cli = [pc |-> "start", gemini |-> g, verbose |-> v, format |-> f,
                 conf |-> <<>>, result |-> extract_text(EngineRead(<<>>, <<>>)),
                 gemini_result |-> "none", stdout |-> "none", stderr |-> "",
                 exit_code |-> -1]

\* sys.exit(1) after a message on stderr
Exit1(c, message) == [c EXCEPT !.pc = "done", !.stderr = message, !.exit_code = 1]

\* cli.py:273-302: the input file is looked up and read
CliExtract ==
    /\ cli.pc = "start"
    /\ \E exists \in BOOLEAN, run \in CliRuns :
          IF ~exists
          THEN cli' = Exit1(cli, "not found")                      \* 273-275
          ELSE LET result == extract_text(run) IN
               IF result.has_error                                 \* 300-302
               THEN cli' = Exit1([cli EXCEPT !.conf = run.conf, !.result = result], "error")
               ELSE cli' = [cli EXCEPT !.pc = "extracted", !.conf = run.conf,
                                       !.result = result]
    /\ UNCHANGED <<UPLOAD_SESSIONS, files, next_uuid, arrived, response, batch, http, calls>>

\* cli.py:304-335: the Gemini step; api_key is whether a key is found,
\* init what the constructor of GeminiProcessor does, llm what process_text
\* returns
CliGemini ==
    /\ cli.pc = "extracted"
    /\ \E api_key \in BOOLEAN, init \in {"ok", "raise"}, llm \in ProcessTextOutcomes :
          IF ~cli.gemini
          THEN cli' = [cli EXCEPT !.pc = "processed"]
          ELSE IF ~api_key
          THEN cli' = Exit1(cli, "no api key")                     \* 310-312
          ELSE IF init = "raise"                                   \* 332-335
          THEN cli' = IF ~cli.verbose THEN Exit1(cli, "gemini init")
                      ELSE [cli EXCEPT !.pc = "processed", !.stderr = "gemini init"]
          ELSE IF llm # "success"                                  \* 327-330
          THEN cli' = IF ~cli.verbose
                      THEN Exit1([cli EXCEPT !.gemini_result = "failed"], "gemini failed")
                      ELSE [cli EXCEPT !.pc = "processed", !.gemini_result = "failed",
                                       !.stderr = "gemini failed"]
          ELSE cli' = [cli EXCEPT !.pc = "processed", !.gemini_result = "success"]
    /\ UNCHANGED <<UPLOAD_SESSIONS, files, next_uuid, arrived, response, batch, http, calls>>

\* cli.py:338-348: what the output holds
Output(c) ==
    IF c.format = "json"
    THEN IF c.gemini_result # "none" THEN "json with gemini" ELSE "json"
    ELSE IF c.gemini_result = "success" THEN "text with gemini" ELSE "text"

\* cli.py:337-376: the output is printed, or saved to --output, which may fail
CliOutput ==
    /\ cli.pc = "processed"
    /\ \E saved \in BOOLEAN :
          IF saved
          THEN cli' = [cli EXCEPT !.pc = "done", !.stdout = Output(cli), !.exit_code = 0]
          ELSE cli' = Exit1(cli, "not saved")                      \* 372-374
    /\ UNCHANGED <<UPLOAD_SESSIONS, files, next_uuid, arrived, response, batch, http, calls>>

NextCli ==
    \/ CliExtract
    \/ CliGemini
    \/ CliOutput

SpecCli == InitCli /\ [][NextCli]_vars

(***************************************************************************)
(* The single-request OCR endpoints, api.py:106-404.  Each handler is one  *)
(* action on the files of UPLOAD_FOLDER; http is the request just handled  *)
(* with its response:                                                      *)
(*   route, status, success, error   the response                          *)
(*   names         the file names of the request                           *)
(*   written       the paths the handler saved upload bytes to             *)
(*   data          the records of 'data' ('results' of /batch/ocr)         *)
(*   failures      'failures' of /batch/ocr                                *)
(***************************************************************************)
\* api.py:18-22
GEMINI_AVAILABLE == TRUE

\* the bytes of an uploaded file
UploadBytes == <<"A">>

\* file.save(filepath): the file is created or replaced
SaveFile(fs, path, data) ==
    [p \in DOMAIN fs \cup {path} |-> IF p = path THEN data ELSE fs[p]]

HttpReply(route, names, status, success, error, written, data, failures) ==
    [route |-> route, names |-> names, status |-> status, success |-> success,
     error |-> error, written |-> written, data |-> data, failures |-> failures]

\* the file names of the requests to the OCR endpoints
OcrFilenames ==
    { <<"a",".","p","n","g">>, <<"a",".","P","N","G">>,
      <<".",".","/","a",".","p","n","g">>, <<".","p","n","g">>,
      <<"b",".","g","i","f">>, <<"a",".","t","x","t">>, <<>> }

\* what GeminiProcessor(...) followed by process_text does: the constructor
\* raises, or process_text returns with this 'success'
GeminiCalls == {"raise"} \cup ProcessTextOutcomes

InitOcr ==
    /\ UPLOAD_SESSIONS = << >>
    /\ files = << >>
    /\ next_uuid = 0
    /\ arrived = << >>
    /\ response = Reply("none", 0, 0, "")
    /\ batch = NoBatch
    /\ cli = NoCli
    /\ calls = NoCalls
    /\ http = NoHttp

\* the checks of the file part, api.py:121-139 and 211-229: the error of
\* the 400 response, "" when the file is accepted
FilePartError(has_file, filename) ==
    IF ~has_file THEN "No file provided"
    ELSE IF filename = <<>> THEN "No file selected"
    ELSE IF ~allowed_file(filename) THEN "File type not allowed"
    ELSE ""

\* POST /ocr, api.py:106-183
process_ocr(has_file, filename_in, run) ==
    IF FilePartError(has_file, filename_in) # ""
    THEN /\ http' = HttpReply("/ocr", <<filename_in>>, 400, FALSE,
                              FilePartError(has_file, filename_in), {}, <<>>, <<>>)
         /\ UNCHANGED files
    ELSE LET filepath == FinalPath(secure_filename(filename_in))
             saved    == SaveFile(files, filepath, UploadBytes)
             result   == extract_text(run)
         IN  /\ files' = RemoveFile(saved, filepath)                \* api.py:162
             /\ http' = IF result.has_error
                        THEN HttpReply("/ocr", <<filename_in>>, 500, FALSE, result.error,
                                       {filepath}, <<>>, <<>>)
                        ELSE HttpReply("/ocr", <<filename_in>>, 200, TRUE, "",
                                       {filepath}, <<WithGemini(result, "absent")>>, <<>>)

\* POST /ocr/gemini, api.py:186-303; form_ok is whether gemini_temperature
\* and gemini_max_tokens parse, api_key whether a key is found
process_ocr_with_gemini(has_file, filename_in, form_ok, api_key, run, llm) ==
    IF ~GEMINI_AVAILABLE
    THEN /\ http' = HttpReply("/ocr/gemini", <<filename_in>>, 400, FALSE,
                              "Gemini integration not available", {}, <<>>, <<>>)
         /\ UNCHANGED files
    ELSE IF FilePartError(has_file, filename_in) # ""
    THEN /\ http' = HttpReply("/ocr/gemini", <<filename_in>>, 400, FALSE,
                              FilePartError(has_file, filename_in), {}, <<>>, <<>>)
         /\ UNCHANGED files
    ELSE LET filepath == FinalPath(secure_filename(filename_in))
             saved    == SaveFile(files, filepath, UploadBytes)
             result   == extract_text(run)
         IN
         IF ~form_ok
         THEN \* float() or int() raises: the except of lines 295-303
              /\ files' = RemoveIfExists(saved, filepath)
              /\ http' = HttpReply("/ocr/gemini", <<filename_in>>, 500, FALSE, "ValueError",
                                   {filepath}, <<>>, <<>>)
         ELSE IF ~api_key
         THEN /\ files' = RemoveFile(saved, filepath)               \* api.py:254
              /\ http' = HttpReply("/ocr/gemini", <<filename_in>>, 400, FALSE,
                                   "GEMINI_API_KEY not found", {filepath}, <<>>, <<>>)
         ELSE LET removed == RemoveFile(saved, filepath) IN         \* api.py:269
              IF result.has_error
              THEN /\ files' = removed
                   /\ http' = HttpReply("/ocr/gemini", <<filename_in>>, 500, FALSE,
                                        result.error, {filepath}, <<>>, <<>>)
              ELSE IF llm = "raise"
              THEN \* GeminiProcessor(...) raises: the except of lines 295-303
                   /\ files' = RemoveIfExists(removed, filepath)
                   /\ http' = HttpReply("/ocr/gemini", <<filename_in>>, 500, FALSE,
                                        "gemini error", {filepath}, <<>>, <<>>)
              ELSE /\ files' = removed
                   /\ http' = HttpReply("/ocr/gemini", <<filename_in>>, 200, TRUE, "",
                                        {filepath}, <<WithGemini(result, llm)>>, <<>>)

\* one file of a request to /batch/ocr
Part(filename, run, llm) == [filename |-> filename, run |-> run, llm |-> llm]

\* a file of a type that is not allowed, an image the engine fails on, an
\* image it reads (for which alone the Gemini step matters)
Parts ==
    { Part(<<"a",".","t","x","t">>, EngineRaised("E"), "success") }
    \cup { Part(<<"a",".","p","n","g">>, run, "success") : run \in BatchRuns }
    \cup { Part(<<"a",".","p","n","g">>, EngineRead(<<"T", " ">>, <<80, 60>>), llm) :
             llm \in GeminiCalls }

\* use_gemini of the form, and whether GEMINI_API_KEY is set (read only
\* when use_gemini is)
GeminiForms ==
    { [use_gemini |-> FALSE, api_key |-> FALSE],
      [use_gemini |-> TRUE, api_key |-> FALSE],
      [use_gemini |-> TRUE, api_key |-> TRUE] }

\* request.files.getlist('files')
PartLists == UNION { [1 .. n -> Parts] : n \in 1 .. MaxUploads }

Failure(filename, error) == [filename |-> filename, error |-> error]

\* the loop of api.py:341-387 over the files that are left; acc holds the
\* folder, results, failed and the paths written so far
RECURSIVE BatchLoop(_, _, _, _)
BatchLoop(parts, use_gemini, api_key, acc) ==
    IF parts = <<>> THEN acc
    ELSE LET file == Head(parts) IN
         IF ~allowed_file(file.filename)
         THEN BatchLoop(Tail(parts), use_gemini, api_key,
                  [acc EXCEPT !.failed =
                       Append(@, Failure(file.filename, "File type not allowed"))])
         ELSE LET filepath == FinalPath(secure_filename(file.filename))
                  saved    == SaveFile(acc.fs, filepath, UploadBytes)
                  result   == extract_text(file.run)
                  wanted   == use_gemini /\ GEMINI_AVAILABLE /\ ~result.has_error /\ api_key
              IN
              IF wanted /\ file.llm = "raise"
              THEN \* GeminiProcessor(...) raises: the except of lines 381-387
                   BatchLoop(Tail(parts), use_gemini, api_key,
                       [acc EXCEPT !.fs = RemoveIfExists(saved, filepath),
                                   !.written = @ \cup {filepath},
                                   !.failed = Append(@, Failure(file.filename, "gemini error"))])
              ELSE BatchLoop(Tail(parts), use_gemini, api_key,
                       [acc EXCEPT !.fs = RemoveFile(saved, filepath),      \* api.py:379
                                   !.written = @ \cup {filepath},
                                   !.results = Append(@, WithGemini(result,
                                        IF wanted THEN file.llm ELSE "absent"))])

\* the names of the files of a request
Names(parts) == [i \in DOMAIN parts |-> parts[i].filename]

\* POST /batch/ocr, api.py:306-404
batch_process(has_files, parts, use_gemini, api_key) ==
    IF ~has_files
    THEN /\ http' = HttpReply("/batch/ocr", <<>>, 400, FALSE, "No files provided",
                              {}, <<>>, <<>>)
         /\ UNCHANGED files
    ELSE LET done == BatchLoop(parts, use_gemini, api_key,
                         [fs |-> files, results |-> <<>>, failed |-> <<>>, written |-> {}])
         IN  /\ files' = done.fs
             /\ http' = HttpReply("/batch/ocr", Names(parts), 200, TRUE, "",
                                  done.written, done.results, done.failed)

OcrRequest ==
    /\ \/ process_ocr(FALSE, <<>>, EngineRaised("E"))
       \/ \E filename \in OcrFilenames, run \in BatchRuns :
             process_ocr(TRUE, filename, run)
    /\ UNCHANGED <<UPLOAD_SESSIONS, next_uuid, arrived, response, batch, cli, calls>>

\* the requests to /ocr/gemini that differ in what the handler reads of them
GeminiRequests ==
    { [form_ok |-> FALSE, api_key |-> FALSE, run |-> EngineRaised("E"), llm |-> "raise"],
      [form_ok |-> TRUE, api_key |-> FALSE, run |-> EngineRaised("E"), llm |-> "raise"] }
    \cup { [form_ok |-> TRUE, api_key |-> TRUE, run |-> EngineRaised(m), llm |-> "raise"] :
             m \in {"E", ""} }
    \cup { [form_ok |-> TRUE, api_key |-> TRUE,
            run |-> EngineRead(<<"T", " ">>, <<80, 60>>), llm |-> llm] : llm \in GeminiCalls }

OcrGeminiRequest ==
    /\ \/ process_ocr_with_gemini(FALSE, <<>>, TRUE, TRUE, EngineRaised("E"), "raise")
       \/ \E filename \in OcrFilenames, r \in GeminiRequests :
             process_ocr_with_gemini(TRUE, filename, r.form_ok, r.api_key, r.run, r.llm)
    /\ UNCHANGED <<UPLOAD_SESSIONS, next_uuid, arrived, response, batch, cli, calls>>

BatchOcrRequest ==
    /\ \/ batch_process(FALSE, <<>>, FALSE, FALSE)
       \/ \E parts \in PartLists, form \in GeminiForms :
             batch_process(TRUE, parts, form.use_gemini, form.api_key)
    /\ UNCHANGED <<UPLOAD_SESSIONS, next_uuid, arrived, response, batch, cli, calls>>

NextOcr ==
    \/ OcrRequest
    \/ OcrGeminiRequest
    \/ BatchOcrRequest

SpecOcr == InitOcr /\ [][NextOcr]_vars

(***************************************************************************)
(* Concurrent requests to /upload/chunk, api.py:472-529.  app.run serves   *)
(* each request in a thread of its own (api.py:650), and the handler takes *)
(* no lock: a thread may be suspended between any two of its statements.   *)
(* calls[k] is the thread of request k, all for the session of id 1:       *)
(*   pc            "idle" (not arrived), "write" (before line 508),        *)
(*                 "track" (before line 512), "respond" (before line 515), *)
(*                 "done" (the response is sent)                           *)
(*   chunk_index, data   the request's form field and chunk                *)
(*   position      how many indices were recorded once its own was         *)
(*   status, received    the response                                      *)
(***************************************************************************)
IdleCall ==
    [pc |-> "idle", chunk_index |-> -1, data |-> <<>>, position |-> 0,
     status |-> 0, received |-> 0]

\* the session the requests are for, as init_chunked_upload leaves it
ChunkSession == 1

InitChunk ==
    /\ UPLOAD_SESSIONS = SetKey(<< >>, ChunkSession,
            [filename |-> <<"a",".","p","n","g">>, filesize |-> 1,
             chunk_count |-> Len(ClientChunks), received_chunks |-> <<>>,
             temp_path |-> TempPath(ChunkSession)])
    /\ files = << >>
    /\ next_uuid = 1
    /\ arrived = SetKey(<< >>, ChunkSession, <<>>)
    /\ response = Reply("init", ChunkSession, 200, "")
    /\ batch = NoBatch
    /\ cli = NoCli
    /\ http = NoHttp
    /\ calls = [k \in 1 .. MaxCalls |-> IdleCall]

\* a request arrives and its thread runs lines 481-504
BeginChunk ==
    /\ \E k \in DOMAIN calls, has_chunk \in BOOLEAN,
          chunk_index \in {-1} \cup (0 .. Len(ClientChunks) - 1) :
          /\ calls[k].pc = "idle"
          /\ \A j \in DOMAIN calls : j < k => calls[j].pc # "idle"
          /\ KnownSession(ChunkSession)
          /\ calls' = [calls EXCEPT ![k] =
                IF ~has_chunk \/ chunk_index < 0
                THEN [@ EXCEPT !.pc = "done", !.status = 400]
                ELSE [@ EXCEPT !.pc = "write", !.chunk_index = chunk_index,
                               !.data = ClientChunks[chunk_index + 1]]]
    /\ UNCHANGED <<UPLOAD_SESSIONS, files, next_uuid, arrived, response, batch, cli, http>>

\* with open(temp_path, 'ab') as f: chunk.save(f), api.py:507-509
WriteChunk ==
    /\ \E k \in DOMAIN calls :
          /\ calls[k].pc = "write"
          /\ files' = AppendToFile(files, UPLOAD_SESSIONS[ChunkSession].temp_path,
                                   calls[k].data)
          /\ calls' = [calls EXCEPT ![k].pc = "track"]
    /\ UNCHANGED <<UPLOAD_SESSIONS, next_uuid, arrived, response, batch, cli, http>>

\* session['received_chunks'].append(chunk_index), api.py:512
TrackChunk ==
    /\ \E k \in DOMAIN calls :
          /\ calls[k].pc = "track"
          /\ LET received == Append(UPLOAD_SESSIONS[ChunkSession].received_chunks,
                                    calls[k].chunk_index) IN
             /\ UPLOAD_SESSIONS' =
                    [UPLOAD_SESSIONS EXCEPT ![ChunkSession].received_chunks = received]
             /\ calls' = [calls EXCEPT ![k].pc = "respond", ![k].position = Len(received)]
    /\ UNCHANGED <<files, next_uuid, arrived, response, batch, cli, http>>

\* the response with 'received': len(session['received_chunks']),
\* api.py:515-523
RespondChunk ==
    /\ \E k \in DOMAIN calls :
          /\ calls[k].pc = "respond"
          /\ calls' = [calls EXCEPT ![k].pc = "done", ![k].status = 200,
                          ![k].received = Len(UPLOAD_SESSIONS[ChunkSession].received_chunks)]
    /\ UNCHANGED <<UPLOAD_SESSIONS, files, next_uuid, arrived, response, batch, cli, http>>

NextChunk ==
    \/ BeginChunk
    \/ WriteChunk
    \/ TrackChunk
    \/ RespondChunk

SpecChunk == InitChunk /\ [][NextChunk]_vars

(***************************************************************************)
(* Concurrent requests to /upload/complete and /upload/cancel,             *)
(* api.py:532-644.  Each request runs in a thread of its own and neither   *)
(* handler takes a lock.  calls[k] is the thread of request k:             *)
(*   op, upload_id     the request                                         *)
(*   pc            the statement the thread is about to run, "idle"        *)
(*                 before the request arrives, "done" once it is answered  *)
(*   temp_path, final_path   the handler's local variables                 *)
(*   passed        the all-chunks-received check let the request through   *)
(*   processing    the thread reached the processing call                  *)
(*   own           the bytes its own rename moved to final_path            *)
(*   seen          the bytes at final_path when processing was called      *)
(*   status, error     the response                                        *)
(***************************************************************************)
IdleThread ==
    [op |-> "none", upload_id |-> 0, pc |-> "idle", temp_path |-> <<>>,
     final_path |-> <<>>, passed |-> FALSE, processing |-> FALSE,
     own |-> <<>>, seen |-> <<>>, status |-> 0, error |-> ""]

\* what the store holds for the second session when the requests arrive: a
\* complete upload under the first session's file name, a session declared
\* with no chunk, or an upload that still misses a chunk
SecondSessions == {"same_filename", "no_chunk", "incomplete"}

InitFinish ==
    /\ \E second \in SecondSessions :
          /\ UPLOAD_SESSIONS =
                SetKey(SetKey(<< >>, 1,
                    [filename |-> <<"a",".","p","n","g">>, filesize |-> 1,
                     chunk_count |-> 1, received_chunks |-> <<0>>,
                     temp_path |-> TempPath(1)]), 2,
                    [filename |-> <<"a",".","p","n","g">>, filesize |-> 1,
                     chunk_count |-> CASE second = "same_filename" -> 1
                                       [] second = "no_chunk" -> 0
                                       [] OTHER -> 2,
                     received_chunks |-> IF second = "no_chunk" THEN <<>> ELSE <<1>>,
                     temp_path |-> TempPath(2)])
          /\ files = IF second = "no_chunk"
                     THEN AppendToFile(<< >>, TempPath(1), ClientChunks[1])
                     ELSE AppendToFile(AppendToFile(<< >>, TempPath(1), ClientChunks[1]),
                                       TempPath(2), ClientChunks[2])
    /\ next_uuid = 2
    /\ arrived = << >>
    /\ response = Reply("none", 0, 0, "")
    /\ batch = NoBatch
    /\ cli = NoCli
    /\ http = NoHttp
    /\ calls = [k \in 1 .. MaxCalls |-> IdleThread]

\* the thread answers
Answer(k, status, error) ==
    calls' = [calls EXCEPT ![k] = [@ EXCEPT !.pc = "done", !.status = status,
                                              !.error = error]]

\* the thread moves on to another statement
Goto(k, pc) == calls' = [calls EXCEPT ![k].pc = pc]

\* an exception inside the inner try of complete: the thread enters the
\* except clause of api.py:601 with the exception e
Except(k, e) == calls' = [calls EXCEPT ![k] = [@ EXCEPT !.pc = "exists", !.error = e]]

\* a request arrives
BeginFinish ==
    /\ \E k \in DOMAIN calls, op \in {"complete", "cancel"}, id \in {1, 2} :
          /\ calls[k].pc = "idle"
          /\ \A j \in DOMAIN calls : j < k => calls[j].pc # "idle"
          /\ calls' = [calls EXCEPT ![k] =
                [@ EXCEPT !.op = op, !.upload_id = id, !.pc = "check"]]
    /\ UNCHANGED <<UPLOAD_SESSIONS, files, next_uuid, arrived, response, batch, cli, http>>

\* one statement of complete_chunked_upload, api.py:544-612
complete_step(k) ==
    LET c == calls[k]
        id == c.upload_id
    IN
    CASE c.pc = "check" ->                                   \* api.py:545-549
            /\ IF ~KnownSession(id)
               THEN Answer(k, 400, "Invalid upload session")
               ELSE Goto(k, "lookup")
            /\ UNCHANGED <<UPLOAD_SESSIONS, files>>
      [] c.pc = "lookup" ->                                  \* api.py:551-569
            /\ IF id \notin DOMAIN UPLOAD_SESSIONS
               THEN Answer(k, 500, "KeyError")
               ELSE LET session == UPLOAD_SESSIONS[id] IN
                    IF Len(session.received_chunks) # session.chunk_count
                    THEN Answer(k, 400, "Incomplete upload")
                    ELSE calls' = [calls EXCEPT ![k] =
                            [@ EXCEPT !.pc = "rename", !.passed = TRUE,
                                      !.temp_path = session.temp_path,
                                      !.final_path = FinalPath(session.filename)]]
            /\ UNCHANGED <<UPLOAD_SESSIONS, files>>
      [] c.pc = "rename" ->                                  \* api.py:570
            IF ~Exists(files, c.temp_path)
            THEN /\ Answer(k, 500, "FileNotFoundError")
                 /\ UNCHANGED <<UPLOAD_SESSIONS, files>>
            ELSE /\ files' = RenameFile(files, c.temp_path, c.final_path)
                 /\ calls' = [calls EXCEPT ![k] =
                        [@ EXCEPT !.pc = "process", !.own = files[c.temp_path]]]
                 /\ UNCHANGED UPLOAD_SESSIONS
      [] c.pc = "process" ->                                 \* api.py:574-590
            /\ \E outcome \in CallProcessImage :
                  calls' = [calls EXCEPT ![k] =
                     [@ EXCEPT !.processing = TRUE,
                               !.seen = Content(files, c.final_path),
                               !.pc = IF outcome = "returned" THEN "remove" ELSE "exists",
                               !.error = IF outcome = "returned" THEN "" ELSE outcome]]
            /\ UNCHANGED <<UPLOAD_SESSIONS, files>>
      [] c.pc = "remove" ->                                  \* api.py:593
            IF Exists(files, c.final_path)
            THEN /\ files' = RemoveFile(files, c.final_path)
                 /\ Goto(k, "del")
                 /\ UNCHANGED UPLOAD_SESSIONS
            ELSE /\ Except(k, "FileNotFoundError")
                 /\ UNCHANGED <<UPLOAD_SESSIONS, files>>
      [] c.pc = "del" ->                                     \* api.py:594-599
            IF id \in DOMAIN UPLOAD_SESSIONS
            THEN /\ UPLOAD_SESSIONS' = DelKey(UPLOAD_SESSIONS, id)
                 /\ Answer(k, 200, "")
                 /\ UNCHANGED files
            ELSE /\ Except(k, "KeyError")
                 /\ UNCHANGED <<UPLOAD_SESSIONS, files>>
      [] c.pc = "exists" ->                                  \* api.py:603
            /\ Goto(k, IF Exists(files, c.final_path) THEN "remove_err" ELSE "del_err")
            /\ UNCHANGED <<UPLOAD_SESSIONS, files>>
      [] c.pc = "remove_err" ->                              \* api.py:604
            IF Exists(files, c.final_path)
            THEN /\ files' = RemoveFile(files, c.final_path)
                 /\ Goto(k, "del_err")
                 /\ UNCHANGED UPLOAD_SESSIONS
            ELSE /\ Answer(k, 500, "FileNotFoundError")
                 /\ UNCHANGED <<UPLOAD_SESSIONS, files>>
      [] c.pc = "del_err" ->                                 \* api.py:605-612
            IF id \in DOMAIN UPLOAD_SESSIONS
            THEN /\ UPLOAD_SESSIONS' = DelKey(UPLOAD_SESSIONS, id)
                 /\ Answer(k, 500, c.error)
                 /\ UNCHANGED files
            ELSE /\ Answer(k, 500, "KeyError")
                 /\ UNCHANGED <<UPLOAD_SESSIONS, files>>

CompleteStep ==
    /\ \E k \in DOMAIN calls :
          /\ calls[k].op = "complete"
          /\ calls[k].pc \notin {"idle", "done"}
          /\ complete_step(k)
    /\ UNCHANGED <<next_uuid, arrived, response, batch, cli, http>>

\* one statement of cancel_chunked_upload, api.py:618-644
cancel_step(k) ==
    LET c == calls[k]
        id == c.upload_id
    IN
    CASE c.pc = "check" ->                                   \* api.py:619-623
            /\ IF ~KnownSession(id)
               THEN Answer(k, 400, "Invalid upload session")
               ELSE Goto(k, "lookup")
            /\ UNCHANGED <<UPLOAD_SESSIONS, files>>
      [] c.pc = "lookup" ->                                  \* api.py:625-626
            /\ IF id \notin DOMAIN UPLOAD_SESSIONS
               THEN Answer(k, 500, "KeyError")
               ELSE calls' = [calls EXCEPT ![k] =
                        [@ EXCEPT !.pc = "exists",
                                  !.temp_path = UPLOAD_SESSIONS[id].temp_path]]
            /\ UNCHANGED <<UPLOAD_SESSIONS, files>>
      [] c.pc = "exists" ->                                  \* api.py:629
            /\ Goto(k, IF Exists(files, c.temp_path) THEN "remove" ELSE "del")
            /\ UNCHANGED <<UPLOAD_SESSIONS, files>>
      [] c.pc = "remove" ->                                  \* api.py:630
            IF Exists(files, c.temp_path)
            THEN /\ files' = RemoveFile(files, c.temp_path)
                 /\ Goto(k, "del")
                 /\ UNCHANGED UPLOAD_SESSIONS
            ELSE /\ Answer(k, 500, "FileNotFoundError")
                 /\ UNCHANGED <<UPLOAD_SESSIONS, files>>
      [] c.pc = "del" ->                                     \* api.py:633-644
            IF id \in DOMAIN UPLOAD_SESSIONS
            THEN /\ UPLOAD_SESSIONS' = DelKey(UPLOAD_SESSIONS, id)
                 /\ Answer(k, 200, "")
                 /\ UNCHANGED files
            ELSE /\ Answer(k, 500, "KeyError")
                 /\ UNCHANGED <<UPLOAD_SESSIONS, files>>

CancelStep ==
    /\ \E k \in DOMAIN calls :
          /\ calls[k].op = "cancel"
          /\ calls[k].pc \notin {"idle", "done"}
          /\ cancel_step(k)
    /\ UNCHANGED <<next_uuid, arrived, response, batch, cli, http>>

NextFinish ==
    \/ BeginFinish
    \/ CompleteStep
    \/ CancelStep

SpecFinish == InitFinish /\ [][NextFinish]_vars

(***************************************************************************)
(* The stand-alone service of main.py.  Its handlers keep no state: http   *)
(* holds the last request and its response.  A content type is a sequence  *)
(* of characters.                                                          *)
(***************************************************************************)
\* the media types, separators and subtypes a client may put together
MainTypes ==
    { <<"i","m","a","g","e">>, <<"i","m","a","g">>, <<"i","m","a","g","e","s">>,
      <<"I","m","a","g","e">>, <<"x","i","m","a","g","e">>, <<"t","e","x","t">>,
      <<>> }

Separators == { <<"/">>, <<>> }

SubTypes == { <<"p","n","g">>, <<"p","l","a","i","n">>, <<"i","m","a","g","e","/">>, <<>> }

ContentTypes == { m \o sep \o sub : m \in MainTypes, sep \in Separators, sub \in SubTypes }

\* the file names of the uploads
MainFilenames == { <<"t","e","s","t",".","t","x","t">>, <<"a",".","p","n","g">>, <<>> }

\* a test that finds the prefix anywhere in the string
startswith_Anywhere(s, prefix) ==
    \E i \in 0 .. Len(s) :
        i + Len(prefix) <= Len(s) /\ SubSeq(s, i + 1, i + Len(prefix)) = prefix

\* str.startswith
startswith(s, prefix) ==
    Len(s) >= Len(prefix) /\ \A i \in DOMAIN prefix : s[i] = prefix[i]

MainReply(route, has_file, content_type, filename, status, detail, body) ==
    [route |-> route, has_file |-> has_file, content_type |-> content_type,
     filename |-> filename, status |-> status, detail |-> detail, body |-> body]

InitMain ==
    /\ UPLOAD_SESSIONS = << >>
    /\ files = << >>
    /\ next_uuid = 0
    /\ arrived = << >>
    /\ response = Reply("none", 0, 0, "")
    /\ batch = NoBatch
    /\ cli = NoCli
    /\ calls = NoCalls
    /\ http = MainReply("none", FALSE, <<>>, <<>>, 0, "", "")

\* GET /, main.py:25-27
root ==
    /\ http' = MainReply("/", FALSE, <<>>, <<>>, 200, "", "Welcome to OCR Gaby API")
    /\ UNCHANGED <<UPLOAD_SESSIONS, files, next_uuid, arrived, response, batch, cli, calls>>

\* GET /health, main.py:29-31
health_check ==
    /\ http' = MainReply("/health", FALSE, <<>>, <<>>, 200, "", "healthy")
    /\ UNCHANGED <<UPLOAD_SESSIONS, files, next_uuid, arrived, response, batch, cli, calls>>

\* POST /ocr without the part 'file': File(...) makes it required and the
\* framework answers 422 before the handler runs, main.py:34
OcrWithoutFile ==
    /\ http' = MainReply("/ocr", FALSE, <<>>, <<>>, 422, "Field required", "")
    /\ UNCHANGED <<UPLOAD_SESSIONS, files, next_uuid, arrived, response, batch, cli, calls>>

\* POST /ocr with a file, main.py:33-42
OcrWithFile ==
    /\ \E content_type \in ContentTypes, filename \in MainFilenames :
          http' = IF ~startswith(content_type, <<"i","m","a","g","e","/">>)
                  THEN MainReply("/ocr", TRUE, content_type, filename, 400,
                                 "File must be an image", "")
                  ELSE MainReply("/ocr", TRUE, content_type, filename, 200, "",
                                 "OCR endpoint - implementation coming soon")
    /\ UNCHANGED <<UPLOAD_SESSIONS, files, next_uuid, arrived, response, batch, cli, calls>>

NextMain ==
    \/ root
    \/ health_check
    \/ OcrWithoutFile
    \/ OcrWithFile

SpecMain == InitMain /\ [][NextMain]_vars

(***************************************************************************)
(* Properties of the upload session store.                                 *)
(***************************************************************************)
\* the distinct chunk indices a session has received
ReceivedSet(session) ==
    { session.received_chunks[i] : i \in 1 .. Len(session.received_chunks) }

\* the payloads of a history, one after the other
RECURSIVE Payloads(_)
Payloads(log) ==
    IF log = <<>> THEN <<>> ELSE Head(log).data \o Payloads(Tail(log))

\* the step just taken handled request op for upload_id
Handled(op, upload_id) == response'.op = op /\ response'.upload_id = upload_id

\* C1: a complete call on a live session whose distinct received indices are
\* fewer than its chunk_count fails with "Incomplete upload", and the counts
\* it reports are the number of distinct indices received and the chunk_count.
C1_IncompleteBeforeAllDistinct ==
    [][\A id \in DOMAIN UPLOAD_SESSIONS :
          LET session == UPLOAD_SESSIONS[id] IN
          (Handled("complete", id)
             /\ Cardinality(ReceivedSet(session)) < session.chunk_count)
          => /\ response'.status = 400
             /\ response'.error = "Incomplete upload"
             /\ response'.received = Cardinality(ReceivedSet(session))
             /\ response'.total = session.chunk_count]_vars

\* C2: a complete call on a live session whose distinct received indices
\* number exactly its chunk_count succeeds (status 200, a result in the body).
C2_CompleteSucceedsWhenAllReceived ==
    [][\A id \in DOMAIN UPLOAD_SESSIONS :
          LET session == UPLOAD_SESSIONS[id] IN
          (Handled("complete", id)
             /\ Cardinality(ReceivedSet(session)) = session.chunk_count)
          => /\ response'.status = 200
             /\ response'.error = ""]_vars

\* C3: for every live session the backing file holds the payloads of the
\* accepted chunks in the order they arrived, whatever their indices, a
\* repeated index included; the file exists as soon as one chunk arrived.
C3_FileIsArrivalOrder ==
    \A id \in DOMAIN UPLOAD_SESSIONS :
        LET session == UPLOAD_SESSIONS[id] IN
        /\ Content(files, session.temp_path) = Payloads(arrived[id])
        /\ session.received_chunks =
              [i \in 1 .. Len(arrived[id]) |-> arrived[id][i].chunk_index]
        /\ arrived[id] # <<>> => Exists(files, session.temp_path)

\* a session that received chunk 1 before chunk 0 holds "BA"
C3_Witness ==
    \E id \in DOMAIN UPLOAD_SESSIONS :
        /\ UPLOAD_SESSIONS[id].received_chunks = <<1, 0>>
        /\ Content(files, UPLOAD_SESSIONS[id].temp_path) = <<"B", "A">>

\* C4: every received chunk index of every live session lies in [0, chunk_count).
C4_ReceivedWithinChunkCount ==
    \A id \in DOMAIN UPLOAD_SESSIONS :
        \A i \in ReceivedSet(UPLOAD_SESSIONS[id]) :
            0 <= i /\ i < UPLOAD_SESSIONS[id].chunk_count

\* the outcomes of a complete call that got as far as calling the processing
ProcessingReplies == {"", "AttributeError"}

\* C5: a complete call that reaches the processing step ends, whether the
\* processing returned or raised, with the session out of the store and with
\* neither the temporary nor the renamed file left.
C5_CleanupOnBothPaths ==
    [][\A id \in DOMAIN UPLOAD_SESSIONS :
          LET session == UPLOAD_SESSIONS[id] IN
          (Handled("complete", id) /\ response'.error \in ProcessingReplies)
          => /\ id \notin DOMAIN UPLOAD_SESSIONS'
             /\ ~Exists(files', session.temp_path)
             /\ ~Exists(files', FinalPath(session.filename))]_vars

\* a complete call whose processing raised has answered 500 for a session
\* that is gone
C5_Witness ==
    /\ response.op = "complete"
    /\ response.status = 500
    /\ response.error = "AttributeError"
    /\ response.upload_id \notin DOMAIN UPLOAD_SESSIONS

\* C6: chunk, complete and cancel requests for an id that is not in the store
\* answer 400 "Invalid upload session" and change neither the store, nor any
\* session's received chunks, nor any file.
C6_UnknownIdNoEffect ==
    [][\A id \in UploadIds \ DOMAIN UPLOAD_SESSIONS :
          \A op \in {"chunk", "complete", "cancel"} :
              Handled(op, id)
              => /\ response'.status = 400
                 /\ response'.error = "Invalid upload session"
                 /\ UNCHANGED <<UPLOAD_SESSIONS, files, next_uuid, arrived>>]_vars

\* a cancel of an unknown id was refused while another session holds chunks
C6_Witness ==
    /\ response.op = "cancel"
    /\ response.error = "Invalid upload session"
    /\ response.upload_id \notin DOMAIN UPLOAD_SESSIONS
    /\ \E id \in DOMAIN UPLOAD_SESSIONS : UPLOAD_SESSIONS[id].received_chunks # <<>>

\* name ends in "." followed by ext, letter case ignored
EndsWithExtension(name, ext) ==
    /\ Len(name) > Len(ext)
    /\ lower(SubSeq(name, Len(name) - Len(ext), Len(name))) = <<".">> \o ext

\* an init request the store must refuse
MustRefuse(r) ==
    \/ secure_filename(r.filename) = <<>>
    \/ \A ext \in ALLOWED_EXTENSIONS : ~EndsWithExtension(secure_filename(r.filename), ext)
    \/ r.filesize > MAX_FILE_SIZE

\* the init requests the store must refuse
RefusedInitRequests == { r \in InitRequests : MustRefuse(r) }

\* C7: an init request whose sanitized file name is empty, whose extension
\* is not in the allow-list or whose declared size exceeds MAX_FILE_SIZE is
\* answered 400 and creates neither a session nor a file.
C7_InitRejectsInvalid ==
    [][\A r \in RefusedInitRequests :
          (response'.op = "init"
             /\ init_chunked_upload(r.filename, r.filesize, r.chunk_count))
          => /\ response'.status = 400
             /\ UNCHANGED <<UPLOAD_SESSIONS, files, next_uuid>>]_vars

\* an oversized init was refused while a session exists
C7_Witness ==
    /\ response.op = "init"
    /\ response.status = 400
    /\ response.error = "File too large"
    /\ UPLOAD_SESSIONS # << >>

\* C8: a cancel request for a live session, whatever it has received,
\* answers 200, removes the session and leaves no backing file; an id that
\* has left the store never comes back.
C8_CancelRemovesSession ==
    [][/\ \A id \in DOMAIN UPLOAD_SESSIONS :
             Handled("cancel", id)
             => /\ response'.status = 200
                /\ id \notin DOMAIN UPLOAD_SESSIONS'
                /\ ~Exists(files', UPLOAD_SESSIONS[id].temp_path)
       /\ \A id \in 1 .. next_uuid :
             id \notin DOMAIN UPLOAD_SESSIONS => id \notin DOMAIN UPLOAD_SESSIONS']_vars

\* a session holding all of its chunks, and its file, can be cancelled
C8_Witness ==
    /\ response.op = "cancel"
    /\ response.status = 200
    /\ response.upload_id \notin DOMAIN UPLOAD_SESSIONS
    /\ response.upload_id <= next_uuid

(***************************************************************************)
(* Properties of the batch dispatcher.                                     *)
(***************************************************************************)
\* the files a list of the run names
Listed(list) == { list[k] : k \in 1 .. Len(list) }

\* C9: with continue_on_error set, when the loop has ended every file is in
\* exactly one of results and failed_files, once, in failed_files exactly
\* when its processing returned an error or raised; the two sizes add up to
\* the number of files, for every worker count.
C9_EveryFileInOneCollection ==
    (batch.pc \in {"summary", "done"} /\ batch.continue_on_error)
    => /\ Len(batch.results) + Len(batch.failed_files) = batch.n
       /\ Listed(batch.results) \cup Listed(batch.failed_files) = BatchFiles(batch)
       /\ Listed(batch.results) \cap Listed(batch.failed_files) = {}
       /\ \A i \in BatchFiles(batch) :
             i \in Listed(batch.failed_files) <=> batch.outcome[i] \in {"error", "raise"}
       /\ batch.exit_code \in {-1, 0}

\* a finished run of three files on two workers with an error, a raise and
\* a success
C9_Witness ==
    /\ batch.pc = "done"
    /\ batch.continue_on_error
    /\ batch.n = 3
    /\ batch.workers = 2
    /\ Len(batch.results) = 1
    /\ Len(batch.failed_files) = 2
    /\ \E i, j \in BatchFiles(batch) : batch.outcome[i] = "error" /\ batch.outcome[j] = "raise"

\* C10: without continue_on_error, once the loop has seen a failure no file
\* still waiting in the queue is started, the workers that run finish, no
\* result is recorded any more and at most n files are processed.
C10_FailureHaltsDispatch ==
    [][batch.pc = "exiting"
       => /\ \A i \in BatchFiles(batch) :
                batch.status[i] = "queued" => batch'.status[i] = "queued"
          /\ batch'.results = batch.results
          /\ batch'.failed_files = batch.failed_files
          /\ Cardinality({ i \in BatchFiles(batch') : batch'.status[i] # "new" }) <= batch.n]_vars

\* a fail-fast run of three files of which only the second fails
FailFastScenario ==
    /\ batch.n = 3
    /\ ~batch.continue_on_error
    /\ batch.outcome[1] \in {"none", "ok"}
    /\ batch.outcome[2] \in {"none", "error", "raise"}
    /\ batch.outcome[3] \in {"none", "ok"}

\* C11 as stated: in a fail-fast run of three files of which the second
\* fails, at most 1 success has been recorded when processing halts.
C11_AtMostOneSuccess ==
    (FailFastScenario /\ batch.pc \in {"exiting", "done"})
    => Len(batch.results) <= 1

\* C11 as amended: in a fail-fast run of three files of which only the
\* second fails, for every worker count and completion order, the loop
\* halts when it is handed the failure of file 2; by then at most 2
\* successes (files 1 and 3) and no other failure have been recorded, nothing
\* is recorded afterwards, and the run ends with exit code 1.
C11_HaltsWithAtMostTwoSuccesses ==
    FailFastScenario
    => /\ 2 \in batch.yielded
          => /\ batch.pc \in {"exiting", "done"}
             /\ batch.failed_files = <<2>>
             /\ Len(batch.results) <= 2
             /\ Listed(batch.results) \subseteq {1, 3}
       /\ batch.pc \notin {"summary"}
       /\ batch.pc = "done" => batch.exit_code = 1

\* files 1 and 3 were recorded before the failure of file 2 halted the run
\* of two workers
C11_Witness ==
    /\ FailFastScenario
    /\ batch.workers = 2
    /\ batch.pc = "done"
    /\ Listed(batch.results) = {1, 3}
    /\ batch.failed_files = <<2>>
    /\ batch.exit_code = 1

\* C12: at every moment of a batch run at most worker_count files are being
\* processed, and no entry of files_to_process is begun more than once.
C12_BoundedConcurrencyOncePerFile ==
    /\ Cardinality(Running(batch)) <= batch.workers
    /\ \A i \in BatchFiles(batch) :
          /\ batch.starts[i] <= 1
          /\ batch.starts[i] = IF batch.status[i] \in {"running", "finished"} THEN 1 ELSE 0

\* both workers of a pool of two are busy while a third file waits
C12_Witness ==
    /\ batch.workers = 2
    /\ batch.n = 3
    /\ Cardinality(Running(batch)) = 2
    /\ Queued(batch) = {3}

\* C13: the Gemini step is taken for a file only when its extraction
\* succeeded: no record that carries the key 'error', which the loop counts
\* as a failure, carries a Gemini result.
C13_GeminiOnlyAfterSuccess ==
    \A i \in BatchFiles(batch) :
        batch.result[i].gemini # "absent" => ~batch.result[i].has_error

(***************************************************************************)
(* Properties of the single-file command line and of extract_text.         *)
(***************************************************************************)
\* C14: a failure of the Gemini step is soft: the extraction it follows is
\* still reported as a success (its text is written and the run ends with
\* exit code 0), with the failure attached.
C14_GeminiFailureIsSoft ==
    (cli.pc = "done" /\ cli.gemini_result = "failed" /\ cli.stderr # "not saved")
    => /\ cli.exit_code = 0
       /\ cli.stdout # "none"

\* the positions of the confidences that are greater than zero
Signals(conf) == { i \in DOMAIN conf : conf[i] > 0 }

\* the sum of the confidences at the positions idx
RECURSIVE Total(_, _)
Total(conf, idx) ==
    IF idx = {} THEN 0
    ELSE LET i == CHOOSE x \in idx : TRUE IN conf[i] + Total(conf, idx \ {i})

\* the extraction of the run returned a record without error
Extracted == cli.pc # "start" /\ cli.stderr # "not found" /\ ~cli.result.has_error

\* C16 as stated: the confidence reported (in hundredths) is the arithmetic
\* mean of the confidences greater than zero, 0 when there is none.
C16_MeanOfPositive ==
    Extracted
    => LET k == Cardinality(Signals(cli.conf)) IN
       IF k = 0 THEN cli.result.confidence = 0
       ELSE cli.result.confidence * k = 100 * Total(cli.conf, Signals(cli.conf))

\* C16 as amended: the confidence reported is the arithmetic mean of the
\* confidences greater than zero rounded to two decimal places (it differs
\* from the mean by at most half a hundredth), 0 when there is none.
C16_MeanOfPositiveRounded ==
    Extracted
    => LET k == Cardinality(Signals(cli.conf))
           d == cli.result.confidence * k - 100 * Total(cli.conf, Signals(cli.conf))
       IN  IF k = 0 THEN cli.result.confidence = 0
           ELSE -k <= 2 * d /\ 2 * d <= k

\* the confidences [0, 0, 80, 60] are reported as 70.0
C16_Witness ==
    /\ Extracted
    /\ cli.conf = <<0, 0, 80, 60>>
    /\ cli.result.confidence = 7000

(***************************************************************************)
(* Properties of the single-request OCR endpoints.                         *)
(***************************************************************************)
\* C15: a record of extract_text that carries an error has an empty text
\* and confidence 0, and no response lists it among its successful results.
C15_ErrorRecordsAreFailures ==
    \A i \in DOMAIN http.data :
        /\ http.data[i].has_error
              => http.data[i].text = <<>> /\ http.data[i].confidence = 0
        /\ ~http.data[i].has_error

\* the files of the request that pass the extension check
Accepted(names) == { i \in DOMAIN names : allowed_file(names[i]) }

\* C17: in the response of /batch/ocr the sizes of results and failures add
\* up to the number of files accepted for processing: no file rejected for
\* its extension is counted in either.
C17_RejectedFilesNotCounted ==
    (http.route = "/batch/ocr" /\ http.status = 200)
    => /\ Len(http.data) + Len(http.failures) = Cardinality(Accepted(http.names))
       /\ \A k \in DOMAIN http.failures : allowed_file(http.failures[k].filename)

RECURSIVE PayloadsOf(_)
PayloadsOf(indices) ==
    IF indices = <<>> THEN <<>>
    ELSE ClientChunks[Head(indices) + 1] \o PayloadsOf(Tail(indices))

\* C18: concurrent append_chunk calls on one session take effect one at a
\* time: once they have all answered, the payloads lie in the file in the
\* order in which their indices were recorded, and the received count of
\* each response is the number of calls that had taken effect when its own
\* did.
C18_AppendsAreSerialized ==
    (\A k \in DOMAIN calls : calls[k].pc \in {"idle", "done"})
    => /\ Content(files, UPLOAD_SESSIONS[ChunkSession].temp_path)
             = PayloadsOf(UPLOAD_SESSIONS[ChunkSession].received_chunks)
       /\ \A k \in DOMAIN calls :
             calls[k].status = 200 => calls[k].received = calls[k].position

\* C20: a batch run that has reported a failed file ends with a non-zero
\* exit code.
C20_FailureMeansNonZeroExit ==
    (batch.pc = "done" /\ batch.failed_files # <<>>) => batch.exit_code # 0

(***************************************************************************)
(* Properties of session creation.                                         *)
(***************************************************************************)
\* C21: a successful init leaves a session record with no received chunk for
\* the id it returns, an empty destination file at the record's temp_path,
\* and returns an id that no session live before the call carries.
C21_InitAllocatesFileAndRecord ==
    [][(response'.op = "init" /\ response'.status = 200
        /\ UPLOAD_SESSIONS' # UPLOAD_SESSIONS)
       => LET upload_id == response'.upload_id IN
          /\ upload_id \notin DOMAIN UPLOAD_SESSIONS
          /\ upload_id \in DOMAIN UPLOAD_SESSIONS'
          /\ UPLOAD_SESSIONS'[upload_id].received_chunks = <<>>
          /\ Exists(files', UPLOAD_SESSIONS'[upload_id].temp_path)
          /\ files'[UPLOAD_SESSIONS'[upload_id].temp_path] = <<>>]_vars

(***************************************************************************)
(* Properties of the stand-alone service.                                  *)
(***************************************************************************)
\* the first six characters of the content type spell image/
IsImageType(content_type) ==
    /\ Len(content_type) >= 6
    /\ SubSeq(content_type, 1, 6) = <<"i","m","a","g","e","/">>

\* C22: /ocr of main.py answers an uploaded file whose content type does not
\* start with image/ with status 400 and the detail "File must be an image",
\* and does not reject a file whose content type starts with image/.
C22_OnlyImagesAccepted ==
    (http.route = "/ocr" /\ http.has_file)
    => IF IsImageType(http.content_type)
       THEN http.status = 200 /\ http.detail = ""
       ELSE http.status = 400 /\ http.detail = "File must be an image"

\* the upload of the test, test.txt sent as text/plain, was rejected
C22_Witness ==
    /\ http.route = "/ocr"
    /\ http.has_file
    /\ http.content_type = <<"t","e","x","t","/","p","l","a","i","n">>
    /\ http.filename = <<"t","e","s","t",".","t","x","t">>
    /\ http.status = 400

(***************************************************************************)
(* Properties of completion.                                               *)
(***************************************************************************)
\* C26: a complete call for a live session whose number of received chunks
\* equals its chunk_count ends with the session out of the store, whether
\* or not the move of the backing file to its final name succeeded.
C26_CompleteAlwaysRemovesSession ==
    [][\A id \in DOMAIN UPLOAD_SESSIONS :
          (/\ Handled("complete", id)
           /\ Len(UPLOAD_SESSIONS[id].received_chunks) = UPLOAD_SESSIONS[id].chunk_count)
          => id \notin DOMAIN UPLOAD_SESSIONS']_vars

(***************************************************************************)
(* Properties of the size of an upload.                                    *)
(***************************************************************************)
\* C25: for every live session the backing file never holds more bytes than
\* the filesize declared at init, hence never more than MAX_FILE_SIZE.
C25_FileWithinDeclaredSize ==
    \A id \in DOMAIN UPLOAD_SESSIONS :
        LET session == UPLOAD_SESSIONS[id] IN
        /\ Len(Content(files, session.temp_path)) <= session.filesize
        /\ Len(Content(files, session.temp_path)) <= MAX_FILE_SIZE

(***************************************************************************)
(* Properties of concurrent complete and cancel requests.                  *)
(***************************************************************************)
\* the requests that have arrived
Started == { k \in DOMAIN calls : calls[k].pc # "idle" }

\* the complete requests that have arrived for the session
CompletesOf(id) ==
    { k \in Started : calls[k].op = "complete" /\ calls[k].upload_id = id }

\* several requests have arrived, all for the session, all are answered,
\* and one of them is a complete that passed the all-chunks-received check
RaceDecided(id) ==
    /\ Cardinality(Started) >= 2
    /\ \A k \in Started : calls[k].upload_id = id /\ calls[k].pc = "done"
    /\ \E k \in CompletesOf(id) : calls[k].passed

\* C23: for each session the processing call is reached by at most one
\* complete request and at most one complete request answers 200, however
\* the complete and cancel requests for it interleave; once they are all
\* answered the session is out of the store and neither its temporary nor
\* its final file is left.
C23_OneWinnerCleanLosers ==
    \A id \in {1, 2} :
        /\ Cardinality({ k \in CompletesOf(id) : calls[k].processing }) <= 1
        /\ Cardinality({ k \in CompletesOf(id) : calls[k].status = 200 }) <= 1
        /\ RaceDecided(id)
           => /\ id \notin DOMAIN UPLOAD_SESSIONS
              /\ ~Exists(files, TempPath(id))
              /\ ~Exists(files, FinalPath(<<"a",".","p","n","g">>))

\* the same property for the sessions whose backing file exists when the
\* requests arrive, the sessions declared without chunks left aside
C23_OneWinnerCleanLosers_FilePresent ==
    \A id \in {1, 2} :
        /\ Cardinality({ k \in CompletesOf(id) : calls[k].processing }) <= 1
        /\ Cardinality({ k \in CompletesOf(id) : calls[k].status = 200 }) <= 1
        /\ (RaceDecided(id) /\ \E k \in CompletesOf(id) : calls[k].own # <<>>)
           => /\ id \notin DOMAIN UPLOAD_SESSIONS
              /\ ~Exists(files, TempPath(id))
              /\ ~Exists(files, FinalPath(<<"a",".","p","n","g">>))

\* C24: uploads that share a sanitized file name do not interfere: from its
\* rename to its processing call the final file of a complete request holds
\* the bytes of its own session, neither overwritten nor deleted by a
\* request for another session, and the processing call is handed them.
C24_SameFilenameNoInterference ==
    /\ \A k \in Started :
          (calls[k].op = "complete" /\ calls[k].processing)
          => calls[k].seen = calls[k].own
    /\ \A k \in Started :
          (calls[k].op = "complete" /\ calls[k].pc \in {"process"})
          => Content(files, calls[k].final_path) = calls[k].own

=============================================================================
